---- MODULE Spec2Model ----
(***************************************************************************)
(* Hybrid PageRank attribution engine (src/src/index.ts) and its           *)
(* personalized PageRank solver (src/src/pagerank-personaliization.ts).    *)
(*                                                                         *)
(* Numbers.  The code computes in IEEE doubles.  The model computes in     *)
(* exact rationals extended with the three non-finite doubles: a number is *)
(* a pair <<n, d>> in lowest terms with d > 0, NaN is <<0, 0>>, +Infinity  *)
(* is <<1, 0>> and -Infinity is <<-1, 0>>.  Rounding is not modelled;      *)
(* division by zero, NaN propagation, NaN comparisons and the falsiness of *)
(* 0 and NaN under || are.                                                 *)
(*                                                                         *)
(* The specifications share the operators:                                 *)
(*   SolverSpec     one call of abstractPagerank, one action per phase of  *)
(*                  the function and one per pass of its while loop;       *)
(*   SolverFairSpec SolverSpec with the fairness of a sequential run, for  *)
(*                  termination;                                           *)
(*   Spec           an AttributionEngine after construction, one action    *)
(*                  per public method call (evaluate, reward), each        *)
(*                  modelling the whole call;                              *)
(*   RewardSpec     one call of reward on an arbitrary score map;          *)
(*   ConstructSpec  one call of the constructor on a partial config;       *)
(*   BuildSpec      the steps of evaluate before its first solve;          *)
(*   SweepSpec      the loop of examples/alpha-sweep.ts;                   *)
(*   ScenarioSpec   the calls of examples/simple.ts on its node and edge   *)
(*                  shape;                                                 *)
(*   NormalizeSpec  one call of computeNormalizedEdgeValues.               *)
(***************************************************************************)
EXTENDS Integers, Sequences, FiniteSets, TLC

(***************************************************************************)
(* Numbers                                                                 *)
(***************************************************************************)
RECURSIVE GCD(_, _)
GCD(a, b) == IF b = 0 THEN a ELSE GCD(b, a % b)

AbsInt(n) == IF n < 0 THEN -n ELSE n

\* the number n/d, d # 0, in lowest terms with a positive denominator
Rat(n, d) ==
  LET s == IF d < 0 THEN -1 ELSE 1
      g == GCD(AbsInt(n), AbsInt(d))
  IN  <<(s * n) \div g, (s * d) \div g>>

NaN == <<0, 0>>
PosInf == <<1, 0>>
NegInf == <<-1, 0>>
Zero == <<0, 1>>
One == <<1, 1>>
Num(n) == <<n, 1>>

IsNaN(a) == a = NaN
IsFinite(a) == a[2] # 0
Sign(a) == IF a[1] > 0 THEN 1 ELSE IF a[1] < 0 THEN -1 ELSE 0

\* a + b
Add(a, b) ==
  IF IsNaN(a) \/ IsNaN(b) THEN NaN
  ELSE IF ~IsFinite(a) THEN (IF ~IsFinite(b) /\ b # a THEN NaN ELSE a)
  ELSE IF ~IsFinite(b) THEN b
  ELSE LET g == GCD(a[2], b[2])
       IN  Rat(a[1] * (b[2] \div g) + b[1] * (a[2] \div g), (a[2] \div g) * b[2])

\* -a
Neg(a) == <<-a[1], a[2]>>

\* a - b
Sub(a, b) == Add(a, Neg(b))

\* a * b
Mul(a, b) ==
  IF IsNaN(a) \/ IsNaN(b) THEN NaN
  ELSE IF ~IsFinite(a) \/ ~IsFinite(b)
       THEN (IF Sign(a) * Sign(b) = 0 THEN NaN ELSE <<Sign(a) * Sign(b), 0>>)
  ELSE LET g == GCD(AbsInt(a[1]), b[2])
           h == GCD(AbsInt(b[1]), a[2])
       IN  IF a[1] = 0 \/ b[1] = 0 THEN Zero
           ELSE <<(a[1] \div g) * (b[1] \div h), (a[2] \div h) * (b[2] \div g)>>

\* a / b: 0/0 is NaN, x/0 is an infinity of x's sign
Div(a, b) ==
  IF IsNaN(a) \/ IsNaN(b) THEN NaN
  ELSE IF ~IsFinite(b) THEN (IF IsFinite(a) THEN Zero ELSE NaN)
  ELSE IF b[1] = 0 THEN (IF Sign(a) = 0 THEN NaN ELSE <<Sign(a), 0>>)
  ELSE IF ~IsFinite(a) THEN <<Sign(a) * Sign(b), 0>>
  ELSE Mul(a, Rat(b[2], b[1]))

\* Math.abs(a)
Abs(a) == <<AbsInt(a[1]), a[2]>>

\* a < b: false as soon as one side is NaN
Less(a, b) ==
  IF IsNaN(a) \/ IsNaN(b) THEN FALSE
  ELSE IF ~IsFinite(a) \/ ~IsFinite(b)
       THEN (a # b /\ (a = NegInf \/ b = PosInf))
  ELSE LET g == GCD(a[2], b[2])
       IN  a[1] * (b[2] \div g) < b[1] * (a[2] \div g)

\* Math.max(a, b): NaN as soon as one side is NaN
Max(a, b) == IF IsNaN(a) \/ IsNaN(b) THEN NaN ELSE IF Less(a, b) THEN b ELSE a

\* an absent property or map entry (undefined); no number equals it
Absent == <<>>

\* v || dflt on a number or undefined: 0, NaN and undefined are falsy
OrElse(v, dflt) == IF v = Absent \/ v = Zero \/ IsNaN(v) THEN dflt ELSE v

\* v ?? dflt: only undefined gives the default
Nullish(v, dflt) == IF v = Absent THEN dflt ELSE v

\* map[key] or record.key, undefined when there is no such key
Get(map, key) == IF key \in DOMAIN map THEN map[key] ELSE Absent

\* record.key, or dflt when the record has no such property
Default(record, key, dflt) == IF key \in DOMAIN record THEN record[key] ELSE dflt

\* Object.keys(map)
Keys(map) == DOMAIN map

\* {...a, ...b}: b's own properties over a's
Spread(a, b) ==
  [k \in DOMAIN a \cup DOMAIN b |-> IF k \in DOMAIN b THEN b[k] ELSE a[k]]

\* the empty object {}
EmptyMap == [k \in {} |-> Zero]

\* the sum of f[i] over i in S
RECURSIVE SumOver(_, _)
SumOver(f, S) ==
  IF S = {} THEN Zero
  ELSE LET i == CHOOSE j \in S : TRUE IN Add(f[i], SumOver(f, S \ {i}))

\* the array f[1], ..., f[n] (a Float64Array), every entry computed once
RECURSIVE ArrayOf(_, _)
ArrayOf(f, n) == IF n = 0 THEN <<>> ELSE Append(ArrayOf(f, n - 1), f[n])

(***************************************************************************)
(* Graphs (graphology, multi: true).  A graph is its node keys in          *)
(* insertion order and its edges in insertion order; parallel edges are    *)
(* distinct entries.                                                       *)
(***************************************************************************)
Order(graph) == Len(graph.nodes)

NodeIndexes(graph) == 1..Len(graph.nodes)

EdgeIndexes(graph) == 1..Len(graph.edges)

\* the edges leaving node i
OutboundEdges(graph, i) ==
  {k \in EdgeIndexes(graph) : graph.edges[k].source = graph.nodes[i]}

\* the edges entering node i
InboundEdges(graph, i) ==
  {k \in EdgeIndexes(graph) : graph.edges[k].target = graph.nodes[i]}

\* the index of the source node of edge k
SourceIndex(graph, k) ==
  CHOOSE i \in NodeIndexes(graph) : graph.nodes[i] = graph.edges[k].source

\* index.weights[k]: the weight attribute of edge k as the index reads it, a
\* NaN attribute read as 1
IndexWeight(graph, k) ==
  IF IsNaN(graph.edges[k].weight) THEN One ELSE graph.edges[k].weight

\* index.outDegrees[i]: the sum of the weights of the edges leaving node i
outDegrees(graph) ==
  ArrayOf([i \in NodeIndexes(graph) |->
             SumOver([k \in EdgeIndexes(graph) |-> IndexWeight(graph, k)],
                     OutboundEdges(graph, i))],
          Order(graph))

(***************************************************************************)
(* abstractPagerank                                                        *)
(***************************************************************************)
\* DEFAULTS.maxIterations.  The source has 100; the model runs the same
\* loop with a lower ceiling so that exact arithmetic stays in range.
MaxIterations == 4

\* DEFAULTS.tolerance.  The source has 1e-6; the model keeps the test
\* error < N * tolerance with a coarser tolerance, for the same reason.
Tolerance == <<1, 8>>

\* DEFAULTS.alpha
DefaultAlpha == <<17, 20>>

\* resolvedOptions with the default ceiling whatever ceiling is passed
resolvedOptionsOfDefaultCeiling(options) ==
  [alpha |-> Default(options, "alpha", DefaultAlpha),
   maxIterations |-> MaxIterations,
   tolerance |-> Default(options, "tolerance", Tolerance)]

\* resolveDefaults(options, DEFAULTS)
resolvedOptions(options) ==
  [alpha |-> Default(options, "alpha", DefaultAlpha),
   maxIterations |-> Default(options, "maxIterations", MaxIterations),
   tolerance |-> Default(options, "tolerance", Tolerance)]

\* if (personalization): an object, even an empty one, is truthy
HasPersonalization(options) == "personalization" \in DOMAIN options

\* personalization[nodeKey] || 0
PersonalizationOf(options, key) ==
  OrElse(Get(options.personalization, key), Zero)

\* personalizationSum: over the graph's nodes only
personalizationSum(graph, options) ==
  SumOver([i \in NodeIndexes(graph) |-> PersonalizationOf(options, graph.nodes[i])],
          NodeIndexes(graph))

\* SumIsZero without the test: the sum is never found to be zero
SumNeverZero(graph, options) == FALSE

\* if (personalizationSum === 0) throw
SumIsZero(graph, options) == personalizationSum(graph, options) = Zero

\* RestartVector with the passed values taken as they are, not divided by
\* their sum
RestartVectorAsPassed(graph, options) ==
  IF HasPersonalization(options)
  THEN ArrayOf([i \in NodeIndexes(graph) |-> PersonalizationOf(options, graph.nodes[i])],
               Order(graph))
  ELSE ArrayOf([i \in NodeIndexes(graph) |-> Div(One, Num(Order(graph)))],
               Order(graph))

\* RestartVector with the uniform entries left at 1 instead of 1 / order
RestartVectorOfOnes(graph, options) ==
  IF HasPersonalization(options)
  THEN LET sum == personalizationSum(graph, options)
       IN  ArrayOf([i \in NodeIndexes(graph) |->
                      Div(PersonalizationOf(options, graph.nodes[i]), sum)],
                   Order(graph))
  ELSE ArrayOf([i \in NodeIndexes(graph) |-> One], Order(graph))

\* the probability vector p
RestartVector(graph, options) ==
  IF HasPersonalization(options)
  THEN LET sum == personalizationSum(graph, options)
       IN  ArrayOf([i \in NodeIndexes(graph) |->
                      Div(PersonalizationOf(options, graph.nodes[i]), sum)],
                   Order(graph))
  ELSE ArrayOf([i \in NodeIndexes(graph) |-> Div(One, Num(Order(graph)))],
               Order(graph))

\* if (d === 0) danglingNodes.push(i)
danglingNodes(graph) == {i \in NodeIndexes(graph) : outDegrees(graph)[i] = Zero}

\* normalizedEdgeWeights[j] = index.weights[j] / d
normalizedEdgeWeights(graph) ==
  LET d == outDegrees(graph)
  IN  ArrayOf([k \in EdgeIndexes(graph) |->
                 Div(IndexWeight(graph, k), d[SourceIndex(graph, k)])],
              Len(graph.edges))

\* dangleSum, after dangleSum *= alpha
dangleSum(graph, alpha, xLast) == Mul(alpha, SumOver(xLast, danglingNodes(graph)))

\* the vector after the first n nodes of a pass that writes into the vector it
\* reads
RECURSIVE UpdatedInPlace(_, _, _, _, _)
UpdatedInPlace(graph, p, alpha, xLast, n) ==
  IF n = 0 THEN xLast
  ELSE LET cur == UpdatedInPlace(graph, p, alpha, xLast, n - 1)
           w == normalizedEdgeWeights(graph)
           flow == ArrayOf([k \in EdgeIndexes(graph) |->
                              Mul(Mul(alpha, cur[SourceIndex(graph, k)]), w[k])],
                           Len(graph.edges))
           ds == dangleSum(graph, alpha, xLast)
       IN  ArrayOf([i \in NodeIndexes(graph) |->
                      IF i = n
                      THEN Add(SumOver(flow, InboundEdges(graph, i)),
                               Add(Mul(ds, p[i]), Mul(Sub(One, alpha), p[i])))
                      ELSE cur[i]],
                   Order(graph))

\* NextRank updating x in place, node by node
NextRankInPlace(graph, p, alpha, xLast) ==
  UpdatedInPlace(graph, p, alpha, xLast, Order(graph))

\* one pass of the while loop: the new x from xLast
NextRank(graph, p, alpha, xLast) ==
  LET w == normalizedEdgeWeights(graph)
      flow == ArrayOf([k \in EdgeIndexes(graph) |->
                         Mul(Mul(alpha, xLast[SourceIndex(graph, k)]), w[k])],
                      Len(graph.edges))
      ds == dangleSum(graph, alpha, xLast)
  IN  ArrayOf([i \in NodeIndexes(graph) |->
                 Add(SumOver(flow, InboundEdges(graph, i)),
                     Add(Mul(ds, p[i]), Mul(Sub(One, alpha), p[i])))],
              Order(graph))

\* error: the sum of |x[i] - xLast[i]|
ErrorOf(graph, x, xLast) ==
  SumOver([i \in NodeIndexes(graph) |-> Abs(Sub(x[i], xLast[i]))],
          NodeIndexes(graph))

\* Converges with <= for <
ConvergesOrEqual(graph, tolerance, err) ==
  LET bound == Mul(Num(Order(graph)), tolerance)
  IN  Less(err, bound) \/ err = bound

\* if (error < N * tolerance)
Converges(graph, tolerance, err) == Less(err, Mul(Num(Order(graph)), tolerance))

\* index.collect(x): the vector keyed by node
Collect(graph, x) ==
  [key \in {graph.nodes[i] : i \in NodeIndexes(graph)} |->
     x[CHOOSE i \in NodeIndexes(graph) : graph.nodes[i] = key]]

\* the while loop from (x, iteration) to its exit
RECURSIVE PowerIterations(_, _, _, _, _)
PowerIterations(graph, p, opts, x, iteration) ==
  IF iteration >= opts.maxIterations
  THEN [converged |-> FALSE, x |-> x, iteration |-> iteration]
  ELSE LET next == NextRank(graph, p, opts.alpha, x)
       IN  IF Converges(graph, opts.tolerance, ErrorOf(graph, next, x))
           THEN [converged |-> TRUE, x |-> next, iteration |-> iteration]
           ELSE PowerIterations(graph, p, opts, next, iteration + 1)

InvalidPersonalization ==
  "graphology-metrics/centrality/pagerank: The personalization vector sum cannot be 0."

FailedToConverge == "graphology-metrics/centrality/pagerank: failed to converge."

\* pagerank(graph, options): what the call returns or throws; x is the
\* rank vector the call held when it ended
pagerank(graph, options) ==
  LET opts == resolvedOptions(options) IN
  IF Order(graph) = 0
  THEN [kind |-> "returned", scores |-> EmptyMap, x |-> <<>>]
  ELSE IF HasPersonalization(options) /\ SumIsZero(graph, options)
  THEN [kind |-> "threw", error |-> InvalidPersonalization, x |-> <<>>]
  ELSE LET p == RestartVector(graph, options)
           run == PowerIterations(graph, p, opts, p, 0)
       IN  IF run.converged
           THEN [kind |-> "returned", scores |-> Collect(graph, run.x), x |-> run.x]
           ELSE [kind |-> "threw", error |-> FailedToConverge, x |-> run.x]

(***************************************************************************)
(* AttributionEngine                                                       *)
(***************************************************************************)
\* the literal 1e-12 of defaultConfig.normalization.epsilon and of
\* computeNormalizedEdgeValues.  The model uses a larger positive number
\* that exact arithmetic can carry.
DefaultEpsilon == <<1, 4>>

defaultConfig ==
  [alpha |-> <<1, 2>>,
   damping |-> <<17, 20>>,
   normalization |-> [edgeWeight |-> "perTypeSum", transform |-> "none",
                      epsilon |-> DefaultEpsilon],
   weights |-> [edges |-> EmptyMap,
                nodesByType |-> [agent |-> One, artifact |-> One, outcome |-> One],
                nodesById |-> EmptyMap]]

\* config.weights?.[table] || {}
GivenTable(config, table) ==
  IF "weights" \in DOMAIN config /\ table \in DOMAIN config.weights
  THEN config.weights[table]
  ELSE EmptyMap

\* the constructor: this.config
Construct(config) ==
  [Spread(defaultConfig, config) EXCEPT
     !.weights =
        Spread(Spread(defaultConfig.weights, Default(config, "weights", EmptyMap)),
               [edges |-> Spread(defaultConfig.weights.edges,
                                 GivenTable(config, "edges")),
                nodesByType |-> Spread(defaultConfig.weights.nodesByType,
                                       GivenTable(config, "nodesByType")),
                nodesById |-> Spread(defaultConfig.weights.nodesById,
                                     GivenTable(config, "nodesById"))])]

\* nodeMap.get(id): the last node of the list with this id, or undefined
NodeOf(nodes, id) ==
  IF \E i \in 1..Len(nodes) : nodes[i].id = id
  THEN nodes[CHOOSE i \in 1..Len(nodes) :
               /\ nodes[i].id = id
               /\ \A j \in 1..Len(nodes) : nodes[j].id = id => j <= i]
  ELSE Absent

\* nodeMultiplier(n)
nodeMultiplier(config, n) ==
  IF n = Absent THEN One
  ELSE LET typeMultiplier == OrElse(Get(config.weights.nodesByType, n.type), One)
           idMultiplier == OrElse(Get(config.weights.nodesById, n.id), One)
           nodeWeight == Nullish(Get(n, "weight"), One)
       IN  Mul(Mul(typeMultiplier, idMultiplier), nodeWeight)

\* config.normalization?.[key]
NormalizationOption(config, key, dflt) ==
  IF "normalization" \in DOMAIN config /\ key \in DOMAIN config.normalization
  THEN config.normalization[key]
  ELSE dflt

\* rawVals: e.weight ?? 1.0 (transform "none")
rawVals(edges) == [i \in 1..Len(edges) |-> Nullish(Get(edges[i], "weight"), One)]

\* keyOf(e)
keyOf(e) == e.from \o "__" \o e.type

\* the bucket map after the first n edges: map.set(k, (map.get(k) || 0) + v)
RECURSIVE SumBuckets(_, _, _)
SumBuckets(keys, vals, n) ==
  IF n = 0 THEN EmptyMap
  ELSE LET m == SumBuckets(keys, vals, n - 1)
       IN  Spread(m, [k \in {keys[n]} |-> Add(OrElse(Get(m, keys[n]), Zero), vals[n])])

\* the bucket map after the first n edges: map.set(k, Math.max(map.get(k) || 0, v))
RECURSIVE MaxBuckets(_, _, _)
MaxBuckets(keys, vals, n) ==
  IF n = 0 THEN EmptyMap
  ELSE LET m == MaxBuckets(keys, vals, n - 1)
       IN  Spread(m, [k \in {keys[n]} |-> Max(OrElse(Get(m, keys[n]), Zero), vals[n])])

\* computeNormalizedEdgeValues dividing inside the loop that fills the buckets
computeNormalizedEdgeValuesInOnePass(config, edges) ==
  LET mode == NormalizationOption(config, "edgeWeight", "perTypeSum")
      epsilon == NormalizationOption(config, "epsilon", DefaultEpsilon)
      raw == rawVals(edges)
      n == Len(edges)
      types == [i \in 1..n |-> edges[i].type]
      sourceTypes == [i \in 1..n |-> keyOf(edges[i])]
  IN  CASE mode = "perTypeSum" ->
             [i \in 1..n |->
                Div(raw[i], Add(OrElse(Get(SumBuckets(types, raw, i), types[i]), Zero),
                                epsilon))]
        [] mode = "perTypeMax" ->
             [i \in 1..n |->
                Div(raw[i], Add(OrElse(Get(MaxBuckets(types, raw, i), types[i]), Zero),
                                epsilon))]
        [] mode = "perSourceTypeSum" ->
             [i \in 1..n |->
                Div(raw[i],
                    Add(OrElse(Get(SumBuckets(sourceTypes, raw, i), sourceTypes[i]), Zero),
                        epsilon))]
        [] OTHER -> raw

\* computeNormalizedEdgeValues(edges)
computeNormalizedEdgeValues(config, edges) ==
  LET mode == NormalizationOption(config, "edgeWeight", "perTypeSum")
      epsilon == NormalizationOption(config, "epsilon", DefaultEpsilon)
      raw == rawVals(edges)
      n == Len(edges)
      types == [i \in 1..n |-> edges[i].type]
      sourceTypes == [i \in 1..n |-> keyOf(edges[i])]
      byTypeSum == SumBuckets(types, raw, n)
      byTypeMax == MaxBuckets(types, raw, n)
      bySourceTypeSum == SumBuckets(sourceTypes, raw, n)
  IN  CASE mode = "perTypeSum" ->
             [i \in 1..n |->
                Div(raw[i], Add(OrElse(Get(byTypeSum, types[i]), Zero), epsilon))]
        [] mode = "perTypeMax" ->
             [i \in 1..n |->
                Div(raw[i], Add(OrElse(Get(byTypeMax, types[i]), Zero), epsilon))]
        [] mode = "perSourceTypeSum" ->
             [i \in 1..n |->
                Div(raw[i],
                    Add(OrElse(Get(bySourceTypeSum, sourceTypes[i]), Zero), epsilon))]
        [] OTHER -> raw

\* EdgeWeight without the edge's normalized value
EdgeWeightOfMultipliers(config, nodes, edges, normalizedEdgeValues, i) ==
  LET edge == edges[i]
      baseWeight == Mul(Nullish(Get(edge, "confidence"), One),
                        OrElse(Get(config.weights.edges, edge.type), One))
  IN  Mul(Mul(baseWeight, nodeMultiplier(config, NodeOf(nodes, edge.from))),
          nodeMultiplier(config, NodeOf(nodes, edge.to)))

\* the weight attribute of edge i in both graphs
EdgeWeight(config, nodes, edges, normalizedEdgeValues, i) ==
  LET edge == edges[i]
      fromNode == NodeOf(nodes, edge.from)
      toNode == NodeOf(nodes, edge.to)
      normalized == normalizedEdgeValues[i]
      baseWeight == Mul(Mul(normalized, Nullish(Get(edge, "confidence"), One)),
                        OrElse(Get(config.weights.edges, edge.type), One))
  IN  Mul(Mul(baseWeight, nodeMultiplier(config, fromNode)),
          nodeMultiplier(config, toNode))

NotFoundGraphError == "NotFoundGraphError"

UsageGraphError == "UsageGraphError"

\* the arcs left when a later arc between the endpoints of an earlier one is
\* dropped
RECURSIVE FirstArcs(_, _)
FirstArcs(arcs, n) ==
  IF n = 0 THEN <<>>
  ELSE LET kept == FirstArcs(arcs, n - 1)
       IN  IF \E k \in 1..(n - 1) :
                 arcs[k].source = arcs[n].source /\ arcs[k].target = arcs[n].target
           THEN kept
           ELSE Append(kept, arcs[n])

\* AddAll on a graph that is not a multigraph: one arc per pair of endpoints
AddAllSimple(nodes, arcs) ==
  IF \E i, j \in 1..Len(nodes) : i # j /\ nodes[i].id = nodes[j].id
  THEN [kind |-> "threw", error |-> UsageGraphError]
  ELSE IF \E k \in 1..Len(arcs) :
            \/ NodeOf(nodes, arcs[k].source) = Absent
            \/ NodeOf(nodes, arcs[k].target) = Absent
  THEN [kind |-> "threw", error |-> NotFoundGraphError]
  ELSE [kind |-> "graph",
        nodes |-> [i \in 1..Len(nodes) |-> nodes[i].id],
        edges |-> FirstArcs(arcs, Len(arcs))]

\* graph.addNode for every node, then graph.addEdge for every arc: addNode
\* throws on a key the graph has, addEdge on an endpoint the graph lacks
AddAll(nodes, arcs) ==
  IF \E i, j \in 1..Len(nodes) : i # j /\ nodes[i].id = nodes[j].id
  THEN [kind |-> "threw", error |-> UsageGraphError]
  ELSE IF \E k \in 1..Len(arcs) :
            \/ NodeOf(nodes, arcs[k].source) = Absent
            \/ NodeOf(nodes, arcs[k].target) = Absent
  THEN [kind |-> "threw", error |-> NotFoundGraphError]
  ELSE [kind |-> "graph",
        nodes |-> [i \in 1..Len(nodes) |-> nodes[i].id],
        edges |-> arcs]

\* buildGraph(nodes, edges)
buildGraph(config, nodes, edges) ==
  LET normalizedEdgeValues == computeNormalizedEdgeValues(config, edges)
  IN  AddAll(nodes,
             [i \in 1..Len(edges) |->
                [source |-> edges[i].from, target |-> edges[i].to,
                 type |-> edges[i].type,
                 weight |-> EdgeWeight(config, nodes, edges, normalizedEdgeValues, i)]])

\* Reversed without the test of the type: every arc is reversed
ReversedAlways(nodes, edge) == NodeOf(nodes, edge.from) # Absent

\* if (fromNode && fromNode.type !== "outcome"): the arc is reversed
Reversed(nodes, edge) ==
  /\ NodeOf(nodes, edge.from) # Absent
  /\ NodeOf(nodes, edge.from).type # "outcome"

\* buildReverseGraph(nodes, edges, nodeMap, normalizedEdgeValues)
buildReverseGraph(config, nodes, edges, normalizedEdgeValues) ==
  AddAll(nodes,
         [i \in 1..Len(edges) |->
            [source |-> IF Reversed(nodes, edges[i]) THEN edges[i].to ELSE edges[i].from,
             target |-> IF Reversed(nodes, edges[i]) THEN edges[i].from ELSE edges[i].to,
             type |-> edges[i].type,
             weight |-> EdgeWeight(config, nodes, edges, normalizedEdgeValues, i)]])

\* the seed weight of edge i
SeedWeight(config, nodes, edges, normalizedEdgeValues, i) ==
  LET edge == edges[i]
      base == Mul(Mul(normalizedEdgeValues[i], Nullish(Get(edge, "confidence"), One)),
                  OrElse(Get(config.weights.edges, edge.type), One))
  IN  Mul(base, nodeMultiplier(config, NodeOf(nodes, edge.from)))

\* the personalization map after the loop over the first n edges
RECURSIVE SeedsUpTo(_, _, _, _, _)
SeedsUpTo(config, nodes, edges, normalizedEdgeValues, n) ==
  IF n = 0 THEN EmptyMap
  ELSE LET m == SeedsUpTo(config, nodes, edges, normalizedEdgeValues, n - 1)
           fromNode == NodeOf(nodes, edges[n].from)
       IN  IF fromNode # Absent /\ fromNode.type = "outcome"
           THEN Spread(m, [k \in {edges[n].from} |->
                             Add(OrElse(Get(m, edges[n].from), Zero),
                                 SeedWeight(config, nodes, edges, normalizedEdgeValues, n))])
           ELSE m

\* getOutcomePersonalization with a fallback of 1 for every outcome node
getOutcomePersonalizationUniform(config, nodes, edges, normalizedEdgeValues) ==
  LET outcomeNodes == {i \in 1..Len(nodes) : nodes[i].type = "outcome"}
      seeds == SeedsUpTo(config, nodes, edges, normalizedEdgeValues, Len(edges))
  IN  IF outcomeNodes = {} THEN EmptyMap
      ELSE IF Keys(seeds) = {}
      THEN [id \in {nodes[i].id : i \in outcomeNodes} |-> One]
      ELSE seeds

\* getOutcomePersonalization(nodes, edges, nodeMap, normalizedEdgeValues)
getOutcomePersonalization(config, nodes, edges, normalizedEdgeValues) ==
  LET outcomeNodes == {i \in 1..Len(nodes) : nodes[i].type = "outcome"}
      seeds == SeedsUpTo(config, nodes, edges, normalizedEdgeValues, Len(edges))
  IN  IF outcomeNodes = {} THEN EmptyMap
      ELSE IF Keys(seeds) = {}
      THEN [id \in {nodes[i].id : i \in outcomeNodes} |->
              nodeMultiplier(config, NodeOf(nodes, id))]
      ELSE seeds

\* Hybrid with the loop's test dropping only outcome nodes
HybridButOutcomes(config, nodes, forwardScores, reverseScores) ==
  [id \in {nodes[i].id : i \in {j \in 1..Len(nodes) : nodes[j].type # "outcome"}} |->
     LET forward == OrElse(Get(forwardScores, id), Zero)
         reverse == OrElse(Get(reverseScores, id), Zero)
     IN  Add(Mul(config.alpha, forward), Mul(Sub(One, config.alpha), reverse))]

\* Hybrid with alpha weighting the reverse score
HybridSwapped(config, nodes, forwardScores, reverseScores) ==
  [id \in {nodes[i].id : i \in {j \in 1..Len(nodes) : nodes[j].type = "agent"}} |->
     LET forward == OrElse(Get(forwardScores, id), Zero)
         reverse == OrElse(Get(reverseScores, id), Zero)
     IN  Add(Mul(config.alpha, reverse), Mul(Sub(One, config.alpha), forward))]

\* Hybrid with a parenthesis misplaced: alpha * (forward + (1 - alpha) * reverse)
HybridMisplaced(config, nodes, forwardScores, reverseScores) ==
  [id \in {nodes[i].id : i \in {j \in 1..Len(nodes) : nodes[j].type = "agent"}} |->
     LET forward == OrElse(Get(forwardScores, id), Zero)
         reverse == OrElse(Get(reverseScores, id), Zero)
     IN  Mul(config.alpha, Add(forward, Mul(Sub(One, config.alpha), reverse)))]

\* Hybrid adding the two scores without the weights alpha and 1 - alpha
HybridUnweighted(config, nodes, forwardScores, reverseScores) ==
  [id \in {nodes[i].id : i \in {j \in 1..Len(nodes) : nodes[j].type = "agent"}} |->
     LET forward == OrElse(Get(forwardScores, id), Zero)
         reverse == OrElse(Get(reverseScores, id), Zero)
     IN  Add(forward, reverse)]

\* hybridScores
Hybrid(config, nodes, forwardScores, reverseScores) ==
  [id \in {nodes[i].id : i \in {j \in 1..Len(nodes) : nodes[j].type = "agent"}} |->
     LET forward == OrElse(Get(forwardScores, id), Zero)
         reverse == OrElse(Get(reverseScores, id), Zero)
     IN  Add(Mul(config.alpha, forward), Mul(Sub(One, config.alpha), reverse))]

\* a local the call never assigned, because it threw first
NotReached == [kind |-> "not reached"]

\* evaluate(nodes, edges): what the call returns or throws, with its locals
evaluate(config, nodes, edges) ==
  LET normalizedEdgeValues == computeNormalizedEdgeValues(config, edges)
      forwardGraph == buildGraph(config, nodes, edges)
      reverseGraph == buildReverseGraph(config, nodes, edges, normalizedEdgeValues)
      forward == pagerank(forwardGraph, [alpha |-> config.damping])
      personalization ==
        getOutcomePersonalization(config, nodes, edges, normalizedEdgeValues)
      reverseOptions ==
        IF Keys(personalization) # {}
        THEN [alpha |-> config.damping, personalization |-> personalization]
        ELSE [alpha |-> config.damping]
      reverse == pagerank(reverseGraph, reverseOptions)
  IN  IF forwardGraph.kind = "threw"
      THEN [kind |-> "threw", error |-> forwardGraph.error,
            forward |-> NotReached, reverse |-> NotReached]
      ELSE IF reverseGraph.kind = "threw"
      THEN [kind |-> "threw", error |-> reverseGraph.error,
            forward |-> NotReached, reverse |-> NotReached]
      ELSE IF forward.kind = "threw"
      THEN [kind |-> "threw", error |-> forward.error,
            forward |-> forward, reverse |-> NotReached]
      ELSE IF reverse.kind = "threw"
      THEN [kind |-> "threw", error |-> reverse.error,
            forward |-> forward, reverse |-> reverse]
      ELSE [kind |-> "returned",
            scores |-> Hybrid(config, nodes, forward.scores, reverse.scores),
            forward |-> forward, reverse |-> reverse]

\* reward without the pool factor
rewardUnscaled(scores, pool) ==
  LET totalScore == SumOver(scores, Keys(scores))
  IN  IF totalScore = Zero THEN scores
      ELSE [agent \in Keys(scores) |-> Div(scores[agent], totalScore)]

\* reward without the test for a zero total
rewardUnguarded(scores, pool) ==
  LET totalScore == SumOver(scores, Keys(scores))
  IN  [agent \in Keys(scores) |-> Mul(Div(scores[agent], totalScore), pool)]

\* reward(scores, pool): the returned map
reward(scores, pool) ==
  LET totalScore == SumOver(scores, Keys(scores))
  IN  IF totalScore = Zero THEN scores
      ELSE [agent \in Keys(scores) |-> Mul(Div(scores[agent], totalScore), pool)]

(***************************************************************************)
(* State                                                                   *)
(***************************************************************************)
VARIABLES
  \* one call of abstractPagerank (SolverSpec)
  graph,       \* the graph argument
  options,     \* the options argument
  pc,          \* where the call is: "restart", "iterate", "returned", "threw"
  p,           \* the probability vector p
  x,           \* the rank vector x
  xLast,       \* the rank vector of the previous pass
  error,       \* the last pass's error
  iteration,   \* the loop counter
  converged,   \* the loop's flag
  solved,      \* what the call returned or threw
  \* an engine and the calls of its methods
  results,     \* what the calls of a script's loop returned so far
  partial,     \* the config argument of the constructor
  config,      \* this.config
  built,       \* what evaluate holds before its first solve
  nodes,       \* the nodes argument of evaluate
  edges,       \* the edges argument of evaluate
  evaluated,   \* what the last call of evaluate returned or threw
  scores,      \* the scores argument of reward
  pool,        \* the pool argument of reward
  rewarded     \* what the last call of reward returned

solverVars == <<graph, options, pc, p, x, xLast, error, iteration, converged, solved>>

engineVars == <<results, partial, config, built, nodes, edges, evaluated, scores, pool, rewarded>>

vars == <<solverVars, engineVars>>

Pending == [kind |-> "pending"]

\* no call of the solver is in progress
SolverIdle ==
  /\ graph = [nodes |-> <<>>, edges |-> <<>>]
  /\ options = EmptyMap
  /\ pc = "idle"
  /\ p = <<>>
  /\ x = <<>>
  /\ xLast = <<>>
  /\ error = Zero
  /\ iteration = 0
  /\ converged = FALSE
  /\ solved = Pending

\* an engine with the default config, none of its methods called
EngineIdle ==
  /\ results = <<>>
  /\ partial = EmptyMap
  /\ config = Construct(EmptyMap)
  /\ built = Pending
  /\ nodes = <<>>
  /\ edges = <<>>
  /\ evaluated = Pending
  /\ scores = EmptyMap
  /\ pool = One
  /\ rewarded = Pending

(***************************************************************************)
(* SolverSpec: one call pagerank(graph, options)                           *)
(***************************************************************************)
\* the largest number of edges of a graph passed to the solver
MaxSize == 2

\* node keys
SolverKeys == <<"n1", "n2", "n3">>

\* edge weights
SolverWeights == <<Zero, One, Num(2)>>

Range(seq) == {seq[i] : i \in 1..Len(seq)}

\* the sequences over S of length at most n
SeqsUpTo(S, n) == UNION {[1..m -> S] : m \in 0..n}

\* the non-decreasing sequences over 1..n of length at most m
SortedSeqs(n, m) ==
  {js \in SeqsUpTo(1..n, m) : \A k \in 1..(Len(js) - 1) : js[k] <= js[k + 1]}

\* every edge between two of the nodes with one of the weights, in a fixed order
SolverEdgePool(ns) ==
  LET n == Len(ns)
      w == Len(SolverWeights)
  IN  [i \in 1..(n * n * w) |->
         [source |-> ns[((i - 1) \div (n * w)) + 1],
          target |-> ns[(((i - 1) \div w) % n) + 1],
          weight |-> SolverWeights[((i - 1) % w) + 1]]]

\* the graphs the solver is called with: the first n keys, and at most
\* MaxSize edges listed in the pool's order
SolverGraphs ==
  UNION {
    {[nodes |-> ns, edges |-> [k \in 1..Len(js) |-> SolverEdgePool(ns)[js[k]]]] :
       js \in SortedSeqs(Len(SolverEdgePool(ns)), MaxSize)} :
    ns \in {SubSeq(SolverKeys, 1, n) : n \in 0..Len(SolverKeys)}}

\* the restart distributions the solver is called with: the empty object,
\* all zeros, all ones, the first node only (the others missing), and a map
\* with a negative entry (first node 1, last node -1, which cancel when they
\* differ)
Personalizations(ns) ==
  {EmptyMap} \cup
  {[key \in Range(ns) |-> Zero], [key \in Range(ns) |-> One]} \cup
  {[key \in {ns[n]} |-> One] : n \in {1} \cap DOMAIN ns} \cup
  {[key \in Range(ns) |->
      IF key = ns[1] THEN One ELSE IF key = ns[Len(ns)] THEN Num(-1) ELSE Zero] :
     n \in {Len(ns)} \ {0}}

\* the options the solver is called with
SolverOptions(ns) ==
  LET base == [alpha : {<<1, 2>>, One},
               maxIterations : {0, 1, MaxIterations},
               tolerance : {Tolerance}]
  IN  base \cup
      {Spread(b, [personalization |-> q]) : b \in base, q \in Personalizations(ns)}

SolverInit ==
  /\ graph \in SolverGraphs
  /\ options \in SolverOptions(graph.nodes)
  /\ pc = "restart"
  /\ p = <<>>
  /\ x = <<>>
  /\ xLast = <<>>
  /\ error = Zero
  /\ iteration = 0
  /\ converged = FALSE
  /\ solved = Pending
  /\ EngineIdle

\* if (N === 0) return {}
ReturnEmpty ==
  /\ pc = "restart"
  /\ Order(graph) = 0
  /\ pc' = "returned"
  /\ solved' = [kind |-> "returned", scores |-> EmptyMap]
  /\ UNCHANGED <<graph, options, p, x, xLast, error, iteration, converged>>
  /\ UNCHANGED engineVars

\* if (personalizationSum === 0) throw
RejectPersonalization ==
  /\ pc = "restart"
  /\ Order(graph) > 0
  /\ HasPersonalization(options)
  /\ SumIsZero(graph, options)
  /\ pc' = "threw"
  /\ solved' = [kind |-> "threw", error |-> InvalidPersonalization]
  /\ UNCHANGED <<graph, options, p, x, xLast, error, iteration, converged>>
  /\ UNCHANGED engineVars

\* p is built and x starts as p
InitRank ==
  /\ pc = "restart"
  /\ Order(graph) > 0
  /\ ~(HasPersonalization(options) /\ SumIsZero(graph, options))
  /\ p' = RestartVector(graph, options)
  /\ x' = p'
  /\ pc' = "iterate"
  /\ UNCHANGED <<graph, options, xLast, error, iteration, converged, solved>>
  /\ UNCHANGED engineVars

\* one pass of while (iteration < maxIterations)
Iterate ==
  /\ pc = "iterate"
  /\ ~converged
  /\ iteration < resolvedOptions(options).maxIterations
  /\ xLast' = x
  /\ x' = NextRank(graph, p, resolvedOptions(options).alpha, x)
  /\ error' = ErrorOf(graph, x', x)
  /\ IF Converges(graph, resolvedOptions(options).tolerance, error')
     THEN converged' = TRUE /\ iteration' = iteration
     ELSE converged' = FALSE /\ iteration' = iteration + 1
  /\ UNCHANGED <<graph, options, pc, p, solved>>
  /\ UNCHANGED engineVars

\* if (!converged) throw
ThrowNotConverged ==
  /\ pc = "iterate"
  /\ ~converged
  /\ iteration >= resolvedOptions(options).maxIterations
  /\ pc' = "threw"
  /\ solved' = [kind |-> "threw", error |-> FailedToConverge]
  /\ UNCHANGED <<graph, options, p, x, xLast, error, iteration, converged>>
  /\ UNCHANGED engineVars

\* return index.collect(x)
ReturnScores ==
  /\ pc = "iterate"
  /\ converged
  /\ pc' = "returned"
  /\ solved' = [kind |-> "returned", scores |-> Collect(graph, x)]
  /\ UNCHANGED <<graph, options, p, x, xLast, error, iteration, converged>>
  /\ UNCHANGED engineVars

SolverNext ==
  \/ ReturnEmpty
  \/ RejectPersonalization
  \/ InitRank
  \/ Iterate
  \/ ThrowNotConverged
  \/ ReturnScores

SolverSpec == SolverInit /\ [][SolverNext]_vars

\* the call has a next step: it has not returned or thrown
CanStep == pc \in {"restart", "iterate"}

\* the call is one sequential run: while it has a next step it takes it.  This
\* is WF_vars(SolverNext) with ENABLED <<SolverNext>>_vars written as CanStep,
\* the state predicate it equals in every state of a call
SolverFairSpec == SolverSpec /\ ([]<>(~CanStep) \/ []<><<SolverNext>>_vars)

(***************************************************************************)
(* Spec: an engine, and calls of evaluate and reward on it                 *)
(***************************************************************************)
\* the largest number of edges passed to evaluate
MaxEdges == 2

\* the nodes evaluate is called with are taken from these, in this order
Universe ==
  <<[id |-> "alice", type |-> "agent"],
    [id |-> "bob", type |-> "agent"],
    [id |-> "lib", type |-> "artifact"],
    [id |-> "dl", type |-> "outcome"]>>

\* the sub-lists of a list
RECURSIVE SubLists(_)
SubLists(list) ==
  IF list = <<>> THEN {<<>>}
  ELSE LET rest == SubLists(Tail(list))
       IN  rest \cup {<<Head(list)>> \o r : r \in rest}

\* the node lists evaluate is called with: the lists of agents only, and the
\* lists that leave out at most one node
NodeLists ==
  {list \in SubLists(Universe) :
     \/ Len(list) >= Len(Universe) - 1
     \/ \A i \in 1..Len(list) : list[i].type = "agent"}

\* the edges evaluate is called with are taken from these; an edge without
\* weight stands for weight 1
EdgePool ==
  LET ends == <<[from |-> "alice", to |-> "lib", type |-> "creates"],
                [from |-> "bob", to |-> "lib", type |-> "creates"],
                [from |-> "lib", to |-> "alice", type |-> "depends"],
                [from |-> "lib", to |-> "dl", type |-> "depends"],
                [from |-> "dl", to |-> "lib", type |-> "generates"],
                [from |-> "dl", to |-> "alice", type |-> "generates"]>>
  IN  [i \in 1..18 |->
         LET e == ends[((i - 1) \div 3) + 1]
         IN  CASE i % 3 = 1 -> e
               [] i % 3 = 2 -> Spread(e, [weight |-> Zero])
               [] OTHER -> Spread(e, [weight |-> Num(2)])]

\* the lists of at most n edges of the pool, in the pool's order
EdgeLists(n) ==
  {[k \in 1..Len(js) |-> EdgePool[js[k]]] : js \in SortedSeqs(Len(EdgePool), n)}

\* the partial configs an engine is constructed with
PartialConfigs ==
  LET base == [alpha : {Zero, <<1, 2>>, One}, damping : {<<1, 2>>}]
  IN  base \cup
      {Spread(b, [normalization |-> [edgeWeight |-> "none"]]) : b \in base}

Init ==
  /\ SolverIdle
  /\ results = <<>>
  /\ partial \in PartialConfigs
  /\ config = Construct(partial)
  /\ built = Pending
  /\ nodes \in NodeLists
  /\ edges \in EdgeLists(MaxEdges)
  /\ evaluated = Pending
  /\ scores = EmptyMap
  /\ pool = One
  /\ rewarded = Pending

\* engine.evaluate(nodes, edges)
Evaluate ==
  /\ evaluated = Pending
  /\ evaluated' = evaluate(config, nodes, edges)
  /\ UNCHANGED <<results, partial, config, built, nodes, edges, scores, pool, rewarded>>
  /\ UNCHANGED solverVars

\* the pools reward is called with
Pools == {One, Num(1000)}

\* Reward writing the shares into the map it is passed
RewardInPlace ==
  /\ evaluated.kind = "returned"
  /\ \E amount \in Pools :
       /\ pool' = amount
       /\ rewarded' = [kind |-> "returned", result |-> reward(evaluated.scores, pool')]
       /\ scores' = rewarded'.result
       /\ evaluated' = [evaluated EXCEPT !.scores = rewarded'.result]
  /\ UNCHANGED <<results, partial, config, built, nodes, edges>>
  /\ UNCHANGED solverVars

\* engine.reward(scores, pool) on the map evaluate returned
Reward ==
  /\ evaluated.kind = "returned"
  /\ \E amount \in Pools :
       /\ scores' = evaluated.scores
       /\ pool' = amount
       /\ rewarded' = [kind |-> "returned", result |-> reward(scores', pool')]
  /\ UNCHANGED <<results, partial, config, built, nodes, edges, evaluated>>
  /\ UNCHANGED solverVars

Next ==
  \/ Evaluate
  \/ Reward

Spec == Init /\ [][Next]_vars

(***************************************************************************)
(* RewardSpec: one call reward(scores, pool)                               *)
(***************************************************************************)
\* the score maps reward is called with
ScoreMaps ==
  UNION {[S -> {Num(-1), Zero, One, Num(2)}] : S \in SUBSET {"alice", "bob"}}

\* the pools reward is called with
RewardPools == {Zero, One, Num(3), <<-5, 2>>}

RewardInit ==
  /\ SolverIdle
  /\ results = <<>>
  /\ partial = EmptyMap
  /\ config = Construct(EmptyMap)
  /\ built = Pending
  /\ nodes = <<>>
  /\ edges = <<>>
  /\ evaluated = Pending
  /\ scores \in ScoreMaps
  /\ pool \in RewardPools
  /\ rewarded = Pending

\* engine.reward(scores, pool)
RewardCall ==
  /\ rewarded = Pending
  /\ rewarded' = [kind |-> "returned", result |-> reward(scores, pool)]
  /\ UNCHANGED <<results, partial, config, built, nodes, edges, evaluated, scores, pool>>
  /\ UNCHANGED solverVars

RewardNext == RewardCall

RewardSpec == RewardInit /\ [][RewardNext]_vars

(***************************************************************************)
(* ConstructSpec: new AttributionEngine(config)                            *)
(***************************************************************************)
\* this.config before the constructor assigns it
Unassigned == [kind |-> "unassigned"]

\* the objects with no property key, with key undefined, or with key one of
\* the values
Optional(key, values) ==
  {EmptyMap} \cup {[k \in {key} |-> v] : v \in {Absent} \cup values}

\* the objects made of one object of each of three sets
Merged(As, Bs, Cs) == {Spread(Spread(a, b), c) : a \in As, b \in Bs, c \in Cs}

\* the weights objects the constructor is given
GivenWeights ==
  Merged(Optional("edges", {[creates |-> Num(2)]}),
         Optional("nodesByType", {[agent |-> Num(2)], [agent |-> Absent]}),
         Optional("nodesById", {[alice |-> Num(3)]}))

\* the config arguments the constructor is given
GivenConfigs ==
  {Spread(c, w) :
     c \in Merged(Optional("alpha", {<<1, 4>>}),
                  Optional("damping", {<<1, 2>>}),
                  Optional("normalization", {[edgeWeight |-> "none"]})),
     w \in Optional("weights", GivenWeights)}

ConstructInit ==
  /\ SolverIdle
  /\ results = <<>>
  /\ partial \in GivenConfigs
  /\ config = Unassigned
  /\ built = Pending
  /\ nodes = <<>>
  /\ edges = <<>>
  /\ evaluated = Pending
  /\ scores = EmptyMap
  /\ pool = One
  /\ rewarded = Pending

\* constructor(config)
New ==
  /\ config = Unassigned
  /\ config' = Construct(partial)
  /\ UNCHANGED <<results, partial, built, nodes, edges, evaluated, scores, pool, rewarded>>
  /\ UNCHANGED solverVars

ConstructNext == New

ConstructSpec == ConstructInit /\ [][ConstructNext]_vars

(***************************************************************************)
(* BuildSpec: the private methods evaluate calls before and between its    *)
(* solves, each on the arguments evaluate passes it and in evaluate's      *)
(* order; the solves themselves are SolverSpec's and Spec's.               *)
(***************************************************************************)
\* the node lists: the four nodes, the four nodes with weights, and the
\* lists that leave out one node
BuildNodeLists ==
  {list \in SubLists(Universe) : Len(list) >= Len(Universe) - 1} \cup
  {<<[id |-> "alice", type |-> "agent", weight |-> Zero],
     [id |-> "bob", type |-> "agent"],
     [id |-> "lib", type |-> "artifact", weight |-> Num(2)],
     [id |-> "dl", type |-> "outcome", weight |-> Num(3)]>>}

\* the edges: five pairs of endpoints, each plain and with weight 2 and
\* confidence 1/2, and one edge of weight 0
BuildEdgePool ==
  LET ends == <<[from |-> "alice", to |-> "lib", type |-> "creates"],
                [from |-> "bob", to |-> "lib", type |-> "creates"],
                [from |-> "lib", to |-> "alice", type |-> "depends"],
                [from |-> "dl", to |-> "lib", type |-> "generates"],
                [from |-> "dl", to |-> "alice", type |-> "generates"]>>
  IN  [i \in 1..11 |->
         IF i = 11 THEN Spread(ends[4], [weight |-> Zero])
         ELSE IF i % 2 = 1 THEN ends[(i + 1) \div 2]
         ELSE Spread(ends[i \div 2], [weight |-> Num(2), confidence |-> <<1, 2>>])]

\* the lists of at most n edges of the pool, in the pool's order
BuildEdgeLists(n) ==
  {[k \in 1..Len(js) |-> BuildEdgePool[js[k]]] : js \in SortedSeqs(Len(BuildEdgePool), n)}

\* the partial configs: multipliers left out, configured 0 and configured 2,
\* with the default normalization and with none
BuildConfigs ==
  {Spread([weights |-> Spread(t, n)], m) :
     t \in {EmptyMap, [edges |-> [creates |-> Zero]], [edges |-> [generates |-> Num(2)]]},
     n \in {EmptyMap, [nodesByType |-> [agent |-> Zero]],
            [nodesByType |-> [outcome |-> Num(2)], nodesById |-> [lib |-> Num(2)]]},
     m \in {EmptyMap, [normalization |-> [edgeWeight |-> "none"]]}}

BuildInit ==
  /\ SolverIdle
  /\ results = <<>>
  /\ partial \in BuildConfigs
  /\ config = Construct(partial)
  /\ built = Pending
  /\ nodes \in BuildNodeLists
  /\ edges \in BuildEdgeLists(MaxEdges)
  /\ evaluated = Pending
  /\ scores = EmptyMap
  /\ pool = One
  /\ rewarded = Pending

\* const normalizedEdgeValues = this.computeNormalizedEdgeValues(edges)
ComputeNormalizedEdgeValues ==
  /\ built.kind = "pending"
  /\ built' = [kind |-> "normalized",
               normalizedEdgeValues |-> computeNormalizedEdgeValues(config, edges)]
  /\ UNCHANGED <<results, partial, config, nodes, edges, evaluated, scores, pool, rewarded>>
  /\ UNCHANGED solverVars

\* const forwardGraph = this.buildGraph(nodes, edges)
BuildGraph ==
  /\ built.kind = "normalized"
  /\ LET made == buildGraph(config, nodes, edges)
     IN  built' = IF made.kind = "threw"
                  THEN [kind |-> "threw", error |-> made.error]
                  ELSE Spread(built, [kind |-> "forward", forwardGraph |-> made])
  /\ UNCHANGED <<results, partial, config, nodes, edges, evaluated, scores, pool, rewarded>>
  /\ UNCHANGED solverVars

\* const reverseGraph = this.buildReverseGraph(nodes, edges, nodeMap, normalizedEdgeValues)
BuildReverseGraph ==
  /\ built.kind = "forward"
  /\ LET made == buildReverseGraph(config, nodes, edges, built.normalizedEdgeValues)
     IN  built' = IF made.kind = "threw"
                  THEN [kind |-> "threw", error |-> made.error]
                  ELSE Spread(built, [kind |-> "reverse", reverseGraph |-> made])
  /\ UNCHANGED <<results, partial, config, nodes, edges, evaluated, scores, pool, rewarded>>
  /\ UNCHANGED solverVars

\* const personalization = this.getOutcomePersonalization(nodes, edges, nodeMap,
\* normalizedEdgeValues)
GetOutcomePersonalization ==
  /\ built.kind = "reverse"
  /\ built' =
       Spread(built,
              [kind |-> "personalized",
               personalization |->
                 getOutcomePersonalization(config, nodes, edges,
                                           built.normalizedEdgeValues)])
  /\ UNCHANGED <<results, partial, config, nodes, edges, evaluated, scores, pool, rewarded>>
  /\ UNCHANGED solverVars

BuildNext ==
  \/ ComputeNormalizedEdgeValues
  \/ BuildGraph
  \/ BuildReverseGraph
  \/ GetOutcomePersonalization

BuildSpec == BuildInit /\ [][BuildNext]_vars

(***************************************************************************)
(* SweepSpec: the loop of examples/alpha-sweep.ts, one engine per alpha on *)
(* the same nodes, edges and base config                                   *)
(***************************************************************************)
POOL == 5000

alphas == <<Zero, <<1, 4>>, <<1, 2>>, <<3, 4>>, One>>

\* the base configs of the sweep
SweepConfigs ==
  {[damping |-> <<1, 2>>],
   [damping |-> <<1, 2>>, normalization |-> [edgeWeight |-> "none"]]}

\* the node lists of the sweep: those of Spec with three nodes or more
SweepNodeLists == {list \in NodeLists : Len(list) >= Len(Universe) - 1}

SweepInit ==
  /\ SolverIdle
  /\ results = <<>>
  /\ partial \in SweepConfigs
  /\ config = Unassigned
  /\ built = Pending
  /\ nodes \in SweepNodeLists
  /\ edges \in EdgeLists(MaxEdges)
  /\ evaluated = Pending
  /\ scores = EmptyMap
  /\ pool = Num(POOL)
  /\ rewarded = Pending

\* run(a) for the next a of alphas; an error thrown by evaluate ends the script
Run ==
  /\ Len(results) < Len(alphas)
  /\ results # <<>> => results[Len(results)].kind = "returned"
  /\ partial' = Spread(partial, [alpha |-> alphas[Len(results) + 1]])
  /\ config' = Construct(partial')
  /\ evaluated' = evaluate(config', nodes, edges)
  /\ IF evaluated'.kind = "returned"
     THEN /\ scores' = evaluated'.scores
          /\ rewarded' = [kind |-> "returned", result |-> reward(scores', pool)]
          /\ results' = Append(results, [kind |-> "returned",
                                         alpha |-> config'.alpha,
                                         scores |-> scores',
                                         reward |-> rewarded'.result])
     ELSE /\ results' = Append(results, [kind |-> "threw", error |-> evaluated'.error])
          /\ UNCHANGED <<scores, rewarded>>
  /\ UNCHANGED <<built, nodes, edges, pool>>
  /\ UNCHANGED solverVars

SweepNext == Run

SweepSpec == SweepInit /\ [][SweepNext]_vars

(***************************************************************************)
(* ScenarioSpec: the quick start (README, examples/simple.ts): two agents  *)
(* that create one artifact, one outcome that generates it; evaluate, then *)
(* reward                                                                  *)
(***************************************************************************)
\* the weights of the scenario's edges
ScenarioWeights == {<<1, 2>>, One, Num(2), Num(50)}

\* the three edges of the scenario with their weights, in any order
ScenarioEdgeLists ==
  {[k \in 1..3 |->
      <<[from |-> "alice", to |-> "lib", type |-> "creates", weight |-> wa],
        [from |-> "bob", to |-> "lib", type |-> "creates", weight |-> wb],
        [from |-> "dl", to |-> "lib", type |-> "generates", weight |-> wd]>>[order[k]]] :
     wa \in ScenarioWeights, wb \in ScenarioWeights, wd \in ScenarioWeights,
     order \in {o \in [1..3 -> 1..3] : {o[k] : k \in 1..3} = 1..3}}

\* the four nodes of the scenario, in the quick start's order and reversed
ScenarioNodeLists == {Universe, [i \in 1..Len(Universe) |-> Universe[Len(Universe) + 1 - i]]}

\* the config of the scenario: alpha 0.5, and a damping whose solves settle
\* within MaxIterations passes at Tolerance (0.85 in the quick start)
ScenarioConfigs == {[alpha |-> <<1, 2>>, damping |-> <<1, 2>>]}

ScenarioInit ==
  /\ SolverIdle
  /\ results = <<>>
  /\ partial \in ScenarioConfigs
  /\ config = Construct(partial)
  /\ built = Pending
  /\ nodes \in ScenarioNodeLists
  /\ edges \in ScenarioEdgeLists
  /\ evaluated = Pending
  /\ scores = EmptyMap
  /\ pool = One
  /\ rewarded = Pending

ScenarioSpec == ScenarioInit /\ [][Next]_vars

(***************************************************************************)
(* NormalizeSpec: one call of computeNormalizedEdgeValues in each mode, on *)
(* edges whose ids and types are free strings                              *)
(***************************************************************************)
\* the ids the edges start from and the types they have; the separator of
\* keyOf is part of some of them
SourceIds == {"a", "a__b"}

EdgeTypes == {"c", "b__c"}

\* the edges normalized: every source id and type, without weight or with a
\* weight of either sign
NormalizeEdgePool ==
  [from : SourceIds, to : {"t"}, type : EdgeTypes]
    \cup [from : SourceIds, to : {"t"}, type : EdgeTypes,
          weight : {Num(2), Num(-1), Num(-2)}]

\* the normalization modes of Config
NormalizeConfigs ==
  [normalization : [edgeWeight : {"none", "perTypeSum", "perSourceTypeSum", "perTypeMax"}]]

NormalizeInit ==
  /\ SolverIdle
  /\ results = <<>>
  /\ partial \in NormalizeConfigs
  /\ config = Construct(partial)
  /\ built = Pending
  /\ nodes = <<>>
  /\ edges \in SeqsUpTo(NormalizeEdgePool, MaxEdges)
  /\ evaluated = Pending
  /\ scores = EmptyMap
  /\ pool = One
  /\ rewarded = Pending

\* the orders the edges of a list of n can be passed in
Orders(n) == {o \in [1..n -> 1..n] : \A j, k \in 1..n : o[j] = o[k] => j = k}

\* a second call, on the same edges in another order
ComputeReordered ==
  /\ built.kind = "normalized"
  /\ results = <<>>
  /\ \E order \in Orders(Len(edges)) :
       results' =
         <<[order |-> order,
            normalizedEdgeValues |->
              computeNormalizedEdgeValues(config,
                                          [k \in 1..Len(edges) |-> edges[order[k]]])]>>
  /\ UNCHANGED <<partial, config, built, nodes, edges, evaluated, scores, pool, rewarded>>
  /\ UNCHANGED solverVars

NormalizeNext ==
  \/ ComputeNormalizedEdgeValues
  \/ ComputeReordered

NormalizeSpec == NormalizeInit /\ [][NormalizeNext]_vars

(***************************************************************************)
(* Properties of evaluate (Spec)                                           *)
(***************************************************************************)
\* the ids of the nodes of type agent passed to evaluate
AgentIds == {nodes[i].id : i \in {j \in 1..Len(nodes) : nodes[j].type = "agent"}}

\* the ids of the nodes passed to evaluate
NodeIds == {nodes[i].id : i \in 1..Len(nodes)}

\* C1: whenever evaluate returns, the keys of the returned map are exactly
\* the ids of the input nodes of type agent: every agent has an entry, no
\* artifact id and no outcome id has one.
C1_KeysAreTheAgents ==
  evaluated.kind = "returned" => Keys(evaluated.scores) = AgentIds

\* evaluate returned on two agents, an artifact, an outcome and some edges
C1_Witness ==
  /\ evaluated.kind = "returned"
  /\ Len(nodes) = Len(Universe)
  /\ Len(edges) >= 1
  /\ Keys(evaluated.scores) = {"alice", "bob"}
  /\ {"lib", "dl"} \cap Keys(evaluated.scores) = {}

\* F: the solver's scores on the forward graph, uniform restart
ForwardSolve == pagerank(buildGraph(config, nodes, edges), [alpha |-> config.damping])

\* R: the solver's scores on the reverse graph, restart from the outcomes
ReverseSolve ==
  LET normalizedEdgeValues == computeNormalizedEdgeValues(config, edges)
      personalization ==
        getOutcomePersonalization(config, nodes, edges, normalizedEdgeValues)
  IN  pagerank(buildReverseGraph(config, nodes, edges, normalizedEdgeValues),
               IF Keys(personalization) # {}
               THEN [alpha |-> config.damping, personalization |-> personalization]
               ELSE [alpha |-> config.damping])

\* a missing entry counts as 0
ScoreIn(solve, id) ==
  IF id \in Keys(solve.scores) /\ solve.scores[id] # Zero /\ ~IsNaN(solve.scores[id])
  THEN solve.scores[id]
  ELSE Zero

\* C2: whenever evaluate returns, the score of every agent is
\* alpha*F + (1-alpha)*R, F its score in the forward solve and R its score in
\* the reverse solve; with alpha = 0 the score is exactly R, with alpha = 1
\* exactly F.
C2_HybridFormula ==
  evaluated.kind = "returned" =>
    \A id \in AgentIds :
      LET F == ScoreIn(ForwardSolve, id)
          R == ScoreIn(ReverseSolve, id)
      IN  /\ evaluated.scores[id] =
               Add(Mul(config.alpha, F), Mul(Sub(One, config.alpha), R))
          /\ config.alpha = Zero => evaluated.scores[id] = R
          /\ config.alpha = One => evaluated.scores[id] = F

\* evaluate returned with alpha = 0 for an agent whose forward and reverse
\* scores differ
C2_Witness ==
  /\ evaluated.kind = "returned"
  /\ config.alpha = Zero
  /\ \E id \in AgentIds :
       /\ ScoreIn(evaluated.forward, id) # ScoreIn(evaluated.reverse, id)
       /\ ScoreIn(evaluated.forward, id) # Zero
       /\ evaluated.scores[id] = ScoreIn(evaluated.reverse, id)

\* some edge names an id that no node of the list has
MissingEndpoint ==
  \E k \in 1..Len(edges) : edges[k].from \notin NodeIds \/ edges[k].to \notin NodeIds

\* C9, as the claim states it: when an edge's from or to id is absent from
\* the node list, evaluate returns, and the returned map has no entry for an
\* id that is not a node.
C9_MissingEndpointTolerated ==
  (evaluated # Pending /\ MissingEndpoint) =>
    /\ evaluated.kind = "returned"
    /\ Keys(evaluated.scores) \subseteq NodeIds

\* the edges whose source is an outcome node of the list
OutcomeSourced ==
  {k \in 1..Len(edges) :
     \E i \in 1..Len(nodes) : nodes[i].id = edges[k].from /\ nodes[i].type = "outcome"}

\* the sum of the personalization evaluate builds
SeedSum ==
  LET personalization ==
        getOutcomePersonalization(config, nodes, edges,
                                  computeNormalizedEdgeValues(config, edges))
  IN  SumOver(personalization, Keys(personalization))

\* an outcome node has edges, every such edge has weight 0, the
\* personalization sums to zero, and every edge joins two nodes of the list
ZeroSeeds ==
  /\ OutcomeSourced # {}
  /\ \A k \in OutcomeSourced : Get(edges[k], "weight") = Zero
  /\ SeedSum = Zero
  /\ ~MissingEndpoint

\* a NaN among the entries of a rank vector
HasNaN(vector) == \E i \in DOMAIN vector : IsNaN(vector[i])

\* the rank vectors the call of evaluate held
RankVectors ==
  {r.x : r \in {evaluated.forward, evaluated.reverse} \ {NotReached}}

\* C10, as the claim states it: when every outcome-sourced edge has weight 0
\* and the personalization sums to zero, evaluate raises the zero
\* personalization sum error and no rank it computed is NaN.
C10_ZeroSeedsRejected ==
  (evaluated # Pending /\ ZeroSeeds) =>
    /\ evaluated.kind = "threw"
    /\ evaluated.error = InvalidPersonalization
    /\ \A vector \in RankVectors : ~HasNaN(vector)

(***************************************************************************)
(* Properties of reward (RewardSpec)                                       *)
(***************************************************************************)
\* the sum of the values of the map passed to reward
TotalScore == SumOver(scores, Keys(scores))

\* C3: when the values of scores sum to a nonzero total, reward returns a map
\* over the same keys, each entry score/total*pool, and the returned values
\* sum to pool.
C3_RewardSharesThePool ==
  (rewarded # Pending /\ TotalScore # Zero) =>
    /\ rewarded.kind = "returned"
    /\ Keys(rewarded.result) = Keys(scores)
    /\ \A agent \in Keys(scores) :
         rewarded.result[agent] = Mul(Div(scores[agent], TotalScore), pool)
    /\ SumOver(rewarded.result, Keys(rewarded.result)) = pool

\* reward returned for two agents, one with a negative score, a nonzero
\* total and a pool other than 0 and 1
C3_Witness ==
  /\ rewarded # Pending
  /\ Cardinality(Keys(scores)) = 2
  /\ \E agent \in Keys(scores) : Less(scores[agent], Zero)
  /\ TotalScore # Zero
  /\ pool = Num(3)
  /\ rewarded.result # scores

\* C4: reward raises no error, and when the values of scores sum to exactly 0
\* (the empty map, a map of zeros, values that cancel) it returns the map it
\* was given, whatever the pool.
C4_ZeroTotalPassesThrough ==
  rewarded # Pending =>
    /\ rewarded.kind = "returned"
    /\ TotalScore = Zero => rewarded.result = scores

\* reward returned its input for two scores that cancel, the pool not 1
C4_Witness ==
  /\ rewarded # Pending
  /\ TotalScore = Zero
  /\ \E agent \in Keys(scores) : scores[agent] # Zero
  /\ pool # One
  /\ rewarded.result = scores

(***************************************************************************)
(* Properties of abstractPagerank (SolverSpec)                             *)
(***************************************************************************)
\* the sum of a vector over the graph's nodes
SumOfVector(vector) == SumOver(vector, NodeIndexes(graph))

\* C6, as the claim states it: on a graph with at least one node the restart
\* vector sums to 1, the rank vector sums to 1 after every pass, and the
\* returned map sums to 1.
C6_RanksSumToOne ==
  Order(graph) >= 1 =>
    /\ pc \in {"iterate", "returned"} => SumOfVector(p) = One /\ SumOfVector(x) = One
    /\ pc = "returned" => SumOver(solved.scores, Keys(solved.scores)) = One

\* a restart distribution was passed and sums to zero over the graph's nodes
ZeroSumPassed ==
  /\ HasPersonalization(options)
  /\ SumOver([i \in NodeIndexes(graph) |->
                OrElse(Get(options.personalization, graph.nodes[i]), Zero)],
             NodeIndexes(graph)) = Zero

\* C7: when a restart distribution is passed on a non-empty graph and sums to
\* zero over the graph's nodes, the call ends with the invalid-input error,
\* before any pass and without a score map.
C7_ZeroSumRejected ==
  (pc # "restart" /\ Order(graph) > 0 /\ ZeroSumPassed) =>
    /\ pc = "threw"
    /\ solved.kind = "threw"
    /\ solved.error = InvalidPersonalization
    /\ "scores" \notin DOMAIN solved
    /\ iteration = 0
    /\ x = <<>>
    /\ xLast = <<>>

\* the call threw on a distribution whose entries cancel
C7_Witness ==
  /\ pc = "threw"
  /\ solved.error = InvalidPersonalization
  /\ Order(graph) >= 2
  /\ \E key \in Keys(options.personalization) :
       Less(options.personalization[key], Zero)

\* the rank vectors x after 0, 1, ..., n passes from the restart vector
RECURSIVE RanksUpTo(_)
RanksUpTo(n) ==
  IF n = 0 THEN <<RestartVector(graph, options)>>
  ELSE LET xs == RanksUpTo(n - 1)
       IN  Append(xs, NextRank(graph, xs[1], resolvedOptions(options).alpha, xs[n]))

\* the rank vector after k passes, xs the vectors after 0, 1, ... passes
RankAfter(xs, k) == xs[k + 1]

\* pass k's sum of |next[v] - rank[v]| is strictly below N * tolerance
PassBelow(xs, k) ==
  Less(ErrorOf(graph, RankAfter(xs, k), RankAfter(xs, k - 1)),
       Mul(Num(Order(graph)), resolvedOptions(options).tolerance))

\* the passes among the first maxIterations that are below
PassesBelow(xs) == {k \in 1..resolvedOptions(options).maxIterations : PassBelow(xs, k)}

\* the first of them
FirstBelow(xs) == CHOOSE k \in PassesBelow(xs) : \A j \in PassesBelow(xs) : k <= j

\* the call returned the vector of the first pass below
ReturnedFirstBelow(xs) ==
  /\ pc = "returned"
  /\ solved.kind = "returned"
  /\ solved.scores = Collect(graph, RankAfter(xs, FirstBelow(xs)))

\* the call threw this error and holds no score map
ThrewOnly(message) ==
  /\ pc = "threw"
  /\ solved.kind = "threw"
  /\ solved.error = message
  /\ "scores" \notin DOMAIN solved

\* C8, as the claim states it: on a non-empty graph the call returns if and
\* only if one of the first maxIterations passes is below, it returns the
\* vector of the first such pass, and in every other case it raises the
\* convergence error.
C8_ReturnsIffAPassIsBelow ==
  (pc \in {"returned", "threw"} /\ Order(graph) > 0) =>
    LET xs == RanksUpTo(resolvedOptions(options).maxIterations)
    IN  IF PassesBelow(xs) # {} THEN ReturnedFirstBelow(xs)
        ELSE ThrewOnly(FailedToConverge)

\* C8, amended: on a non-empty graph the call returns if and only if one of
\* the first maxIterations passes is below, and it returns the vector of the
\* first such pass; otherwise it raises an error and returns no partial
\* result: the invalid-input error, with no pass made, when a passed restart
\* distribution sums to zero, the convergence error in every other case.
C8_ReturnsIffAPassIsBelowOrRejects ==
  (pc \in {"returned", "threw"} /\ Order(graph) > 0) =>
    LET xs == RanksUpTo(resolvedOptions(options).maxIterations)
    IN  IF PassesBelow(xs) # {} THEN ReturnedFirstBelow(xs)
        ELSE IF ZeroSumPassed THEN ThrewOnly(InvalidPersonalization) /\ iteration = 0
        ELSE ThrewOnly(FailedToConverge)

\* the call returned the vector of its second pass, the first pass's sum
\* being exactly N * tolerance
C8_Witness ==
  /\ pc = "returned"
  /\ Order(graph) > 0
  /\ LET xs == RanksUpTo(resolvedOptions(options).maxIterations)
     IN  /\ PassesBelow(xs) # {}
         /\ FirstBelow(xs) = 2
         /\ ErrorOf(graph, RankAfter(xs, 1), RankAfter(xs, 0)) =
              Mul(Num(Order(graph)), resolvedOptions(options).tolerance)
  /\ solved.scores = Collect(graph, x)

(***************************************************************************)
(* Properties of the constructor (ConstructSpec)                           *)
(***************************************************************************)
\* the object has no property key, or has it set to undefined
Omits(object, key) == key \notin DOMAIN object \/ object[key] = Absent

\* the top-level fields of a config but weights, and the weights tables
PlainFields == {"alpha", "damping", "normalization"}

WeightTables == {"edges", "nodesByType", "nodesById"}

\* the weights object the constructor was given, {} when it was given none
PartialWeights == IF Omits(partial, "weights") THEN EmptyMap ELSE partial.weights

\* the table of the weights object the constructor was given, {} when none
PartialTable(table) ==
  IF Omits(PartialWeights, table) THEN EmptyMap ELSE PartialWeights[table]

\* C11, as the claim states it: a field the caller omits or sets to undefined
\* (alpha, damping, normalization, weights, each weights table, each entry of
\* a table) has its default in this.config, a field the caller gives has the
\* given value, and a table or entry the caller gives leaves the defaults of
\* the other tables and entries.
C11_DefaultsOverriddenFieldByField ==
  config # Unassigned =>
    /\ \A field \in PlainFields :
         config[field] =
           IF Omits(partial, field) THEN defaultConfig[field] ELSE partial[field]
    /\ \A table \in WeightTables :
         /\ DOMAIN config.weights[table] =
              DOMAIN defaultConfig.weights[table] \cup DOMAIN PartialTable(table)
         /\ \A key \in DOMAIN config.weights[table] :
              config.weights[table][key] =
                IF Omits(PartialTable(table), key)
                THEN defaultConfig.weights[table][key]
                ELSE PartialTable(table)[key]

(***************************************************************************)
(* Properties of the graph builders (BuildSpec)                            *)
(***************************************************************************)
\* a multiplier with its configured value, whatever it is, and 1 when the
\* table has no entry for the key
Configured(table, key) ==
  IF key \in DOMAIN table /\ table[key] # Absent THEN table[key] ELSE One

\* nodesByType[n.type] * nodesById[n.id] * (n.weight ?? 1), every configured
\* multiplier with its configured value
StatedNodeMultiplier(n) ==
  Mul(Mul(Configured(config.weights.nodesByType, n.type),
          Configured(config.weights.nodesById, n.id)),
      Nullish(Get(n, "weight"), One))

\* normalizedWeight * confidence * edgeTypeMultiplier * nodeMultiplier(from)
\* * nodeMultiplier(to) for edge i, every configured multiplier with its
\* configured value
StatedWeight(i) ==
  Mul(Mul(Mul(Mul(built.normalizedEdgeValues[i],
                  Nullish(Get(edges[i], "confidence"), One)),
              Configured(config.weights.edges, edges[i].type)),
          StatedNodeMultiplier(NodeOf(nodes, edges[i].from))),
      StatedNodeMultiplier(NodeOf(nodes, edges[i].to)))

\* the forward graph is built
HasForwardGraph == built.kind \in {"forward", "reverse", "personalized"}

\* C12, as the claim states it: the weight of every edge's arc in the forward
\* graph is normalizedWeight * confidence * edgeTypeMultiplier *
\* nodeMultiplier(from) * nodeMultiplier(to), a configured multiplier counting
\* with its configured value, 0 included, and only an unspecified one as 1.
C12_WeightUsesConfiguredMultipliers ==
  HasForwardGraph =>
    /\ Len(built.forwardGraph.edges) = Len(edges)
    /\ \A i \in 1..Len(edges) : built.forwardGraph.edges[i].weight = StatedWeight(i)

\* the reverse graph is built
HasReverseGraph == built.kind \in {"reverse", "personalized"}

\* the type of the source node of edge i
SourceType(i) == NodeOf(nodes, edges[i].from).type

\* C13: the reverse graph has one arc per input edge, in the edges' order,
\* with the weight of the edge's arc in the forward graph; the arc runs from
\* e.to to e.from when the type of e's source node is not outcome, and from
\* e.from to e.to when it is outcome.
C13_ReverseArcs ==
  HasReverseGraph =>
    /\ Len(built.reverseGraph.edges) = Len(edges)
    /\ \A i \in 1..Len(edges) :
         LET arc == built.reverseGraph.edges[i]
         IN  /\ arc.weight = built.forwardGraph.edges[i].weight
             /\ SourceType(i) # "outcome" =>
                  arc.source = edges[i].to /\ arc.target = edges[i].from
             /\ SourceType(i) = "outcome" =>
                  arc.source = edges[i].from /\ arc.target = edges[i].to

\* the reverse graph is built from an edge of an agent and an edge of an
\* outcome, the first reversed with a weight other than 1, the second kept
C13_Witness ==
  /\ HasReverseGraph
  /\ Len(edges) = 2
  /\ SourceType(1) = "agent"
  /\ SourceType(2) = "outcome"
  /\ built.reverseGraph.edges[1].source = "lib"
  /\ built.reverseGraph.edges[1].weight # One
  /\ built.reverseGraph.edges[2].source = "dl"

(***************************************************************************)
(* Properties of the alpha sweep (SweepSpec)                               *)
(***************************************************************************)
\* a <= b on numbers
AtMost(a, b) == a = b \/ Less(a, b)

\* v lies between a and b, whichever of the two is larger
Between(v, a, b) ==
  \/ AtMost(a, v) /\ AtMost(v, b)
  \/ AtMost(b, v) /\ AtMost(v, a)

\* the sweep has run for every alpha
Swept == Len(results) = Len(alphas) /\ results[Len(results)].kind = "returned"

\* C14: for the same nodes, edges and base config, and alpha1 <= alpha2, the
\* scores of an agent at alpha1 and at alpha2 both lie between its score at
\* alpha = 0 and its score at alpha = 1, and the score at alpha2 is at least
\* as close to the score at alpha = 1 as the score at alpha1.
C14_MonotoneInAlpha ==
  Swept =>
    \A i, j \in 1..Len(results) :
      AtMost(results[i].alpha, results[j].alpha) =>
        \A id \in Keys(results[1].scores) :
          LET R == results[1].scores[id]
              F == results[Len(results)].scores[id]
              H1 == results[i].scores[id]
              H2 == results[j].scores[id]
          IN  /\ results[1].alpha = Zero
              /\ results[Len(results)].alpha = One
              /\ Between(H1, R, F)
              /\ Between(H2, R, F)
              /\ AtMost(Abs(Sub(F, H2)), Abs(Sub(F, H1)))

\* the sweep has run for an agent whose scores at alpha = 0, 1/2 and 1 are
\* three different numbers
C14_Witness ==
  /\ Swept
  /\ \E id \in Keys(results[1].scores) :
       /\ Less(results[1].scores[id], results[3].scores[id])
       /\ Less(results[3].scores[id], results[5].scores[id])

(***************************************************************************)
(* Properties of the quick start (ScenarioSpec)                            *)
(***************************************************************************)
\* the weight of the creates edge of an agent
CreatesWeight(id) ==
  edges[CHOOSE k \in 1..Len(edges) : edges[k].from = id /\ edges[k].type = "creates"].weight

IsolatedAgents ==
  /\ Len(nodes) >= 1
  /\ \A i \in 1..Len(nodes) : nodes[i].type = "agent"
  /\ edges = <<>>

\* C16: for an input of n >= 1 agent nodes, no other nodes and no edges,
\* evaluate raises no error and returns for each agent the uniform restart
\* share 1/n (1 for a single isolated agent).
C16_IsolatedAgentsShareUniformly ==
  (evaluated # Pending /\ IsolatedAgents) =>
    /\ evaluated.kind = "returned"
    /\ \A id \in AgentIds : evaluated.scores[id] = Div(One, Num(Len(nodes)))

\* evaluate returned 1/2 for each of two isolated agents
C16_Witness ==
  /\ evaluated # Pending
  /\ IsolatedAgents
  /\ Len(nodes) = 2
  /\ evaluated.kind = "returned"
  /\ \A id \in AgentIds : evaluated.scores[id] = <<1, 2>>

(***************************************************************************)
(* Properties of dangling nodes in abstractPagerank (SolverSpec)           *)
(***************************************************************************)
\* the sum of the weights of the edges out of node i
OutWeightSum(i) ==
  LET out == OutboundEdges(graph, i)
  IN  SumOver([k \in out |-> IndexWeight(graph, k)], out)

\* the nodes whose outgoing weights sum to 0: without edges, or with only
\* zero-weight ones
ZeroOutWeight == {i \in NodeIndexes(graph) : OutWeightSum(i) = Zero}

\* C17, as the claim states it: every node whose outgoing edge weights sum to
\* 0 is dangling, whether it has no outgoing edges or only zero-weight ones,
\* and every entry of the rank vector is a number, never NaN, in every pass.
C17_ZeroOutWeightIsDangling ==
  pc \in {"iterate", "returned", "threw"} =>
    /\ ZeroOutWeight \subseteq danglingNodes(graph)
    /\ ~HasNaN(x)
    /\ ~HasNaN(xLast)

(***************************************************************************)
(* Properties of getOutcomePersonalization (BuildSpec)                     *)
(***************************************************************************)
\* the edges whose source is node id
EdgesFrom(id) == {i \in 1..Len(edges) : edges[i].from = id}

\* the ids of the outcome nodes that are the source of an edge
SeededOutcomes == {edges[i].from : i \in OutcomeSourced}

\* the weights edge i carries in the forward and the reverse graph are the same
CarriedWeight(i) ==
  EdgeWeight(config, nodes, edges, built.normalizedEdgeValues, i)

\* C18, as the claim states it: for every edge whose source is in the node
\* list with type outcome, the personalization builder adds to
\* personalization[e.from] the full effective weight of the edge, the value the
\* edge carries in the forward and reverse graphs, multiplier of the target
\* node included.
C18_SeedIsTheCarriedWeight ==
  built.kind = "personalized" =>
    \A id \in SeededOutcomes :
      /\ id \in Keys(built.personalization)
      /\ built.personalization[id] =
           SumOver([i \in EdgesFrom(id) |-> CarriedWeight(i)], EdgesFrom(id))

\* the ids of the nodes of type outcome
OutcomeIds == {nodes[i].id : i \in {j \in 1..Len(nodes) : nodes[j].type = "outcome"}}

SameSourceAndType(i) ==
  {k \in 1..Len(edges) : edges[k].from = edges[i].from /\ edges[k].type = edges[i].type}

\* the mode the call ran in
Mode == NormalizationOption(config, "edgeWeight", "perTypeSum")

\* C20, as the claim states it: under perSourceTypeSum the normalized value of
\* edge e is its weight divided by epsilon plus the sum of the weights of
\* exactly the edges f with f.from = e.from and f.type = e.type; edges whose
\* (from, type) pairs differ never share a bucket, whatever strings are used as
\* ids and types.
C20_BucketsArePerSourceAndType ==
  (built.kind = "normalized" /\ Mode = "perSourceTypeSum") =>
    \A i \in 1..Len(edges) :
      built.normalizedEdgeValues[i] =
        Div(rawVals(edges)[i],
            Add(SumOver(rawVals(edges), SameSourceAndType(i)),
                NormalizationOption(config, "epsilon", DefaultEpsilon)))

\* the edges with the type of edge i
SameType(i) == {k \in 1..Len(edges) : edges[k].type = edges[i].type}

\* the largest of the values of vector at the indexes in S
Largest(vector, S) ==
  vector[CHOOSE k \in S : \A j \in S : ~Less(vector[k], vector[j])]

\* C21, as the claim states it: under perTypeMax the normalized value of edge
\* e is its weight divided by epsilon plus the maximum weight over all edges of
\* e's type, for every edge list, lists in which all weights of a type are
\* negative included.
C21_DividedByTheTypeMaximum ==
  (built.kind = "normalized" /\ Mode = "perTypeMax") =>
    \A i \in 1..Len(edges) :
      built.normalizedEdgeValues[i] =
        Div(rawVals(edges)[i],
            Add(Largest(rawVals(edges), SameType(i)),
                NormalizationOption(config, "epsilon", DefaultEpsilon)))

OneArcPerEdge(g) ==
  /\ Len(g.nodes) = Len(nodes)
  /\ {g.nodes[i] : i \in 1..Len(g.nodes)} = NodeIds
  /\ Len(g.edges) = Len(edges)
  /\ \A i \in 1..Len(edges) :
       /\ {g.edges[i].source, g.edges[i].target} = {edges[i].from, edges[i].to}
       /\ g.edges[i].weight = CarriedWeight(i)

\* C23: the forward and the reverse graph contain every input node, nodes
\* without edges included, and exactly one arc per input edge: parallel edges
\* with the same (from, to) stay distinct arcs with their own weights, none is
\* merged or dropped.
C23_EveryNodeAndOneArcPerEdge ==
  HasReverseGraph =>
    /\ OneArcPerEdge(built.forwardGraph)
    /\ OneArcPerEdge(built.reverseGraph)

\* both graphs are built from two edges between the same endpoints with
\* different weights, and a node without edges
C23_Witness ==
  /\ HasReverseGraph
  /\ Len(edges) = 2
  /\ edges[1].from = edges[2].from
  /\ edges[1].to = edges[2].to
  /\ built.forwardGraph.edges[1].weight # built.forwardGraph.edges[2].weight
  /\ built.reverseGraph.edges[1].weight # built.reverseGraph.edges[2].weight
  /\ \E id \in NodeIds : \A i \in 1..Len(edges) : id \notin {edges[i].from, edges[i].to}

(***************************************************************************)
(* Properties of the passes of abstractPagerank (SolverSpec)               *)
(***************************************************************************)
\* the arcs into node v
ArcsInto(v) == {k \in 1..Len(graph.edges) : graph.edges[k].target = graph.nodes[v]}

\* the index of the source node of arc k
ArcSource(k) == CHOOSE i \in NodeIndexes(graph) : graph.nodes[i] = graph.edges[k].source

\* next[v] as stated, from the previous vector rank and the restart vector
StatedNext(rank, restart, damping, v) ==
  LET danglingMass == SumOver(rank, ZeroOutWeight)
      shares == [k \in ArcsInto(v) |->
                   Mul(Mul(damping, rank[ArcSource(k)]),
                       Div(IndexWeight(graph, k), OutWeightSum(ArcSource(k))))]
  IN  Add(SumOver(shares, ArcsInto(v)),
          Add(Mul(Mul(damping, danglingMass), restart[v]),
              Mul(Sub(One, damping), restart[v])))

\* C24: the rank vector starts equal to the restart vector, and each pass
\* computes the whole next vector from the previous vector only: next[v] is
\* the sum over the arcs i->v of damping * rank[i] * weight(i->v) /
\* outDegree(i), plus damping * danglingMass * restart[v], plus
\* (1 - damping) * restart[v], with danglingMass the sum of the previous ranks
\* of the dangling nodes.
C24_PassIsSynchronous ==
  pc = "iterate" =>
    IF xLast = <<>>
    THEN x = p
    ELSE \A v \in NodeIndexes(graph) :
           x[v] = StatedNext(xLast, p, resolvedOptions(options).alpha, v)

\* a second pass was made from a vector other than the restart vector, on a
\* graph with an arc of positive weight and a restart distribution
C24_Witness ==
  /\ pc = "iterate"
  /\ iteration >= 1
  /\ xLast # <<>>
  /\ xLast # p
  /\ x # xLast
  /\ ~HasNaN(x)
  /\ HasPersonalization(options)
  /\ \E k \in 1..Len(graph.edges) : Less(Zero, IndexWeight(graph, k))
  /\ \A v \in NodeIndexes(graph) :
       x[v] = StatedNext(xLast, p, resolvedOptions(options).alpha, v)

\* the value passed for node v in the restart distribution, 0 for a node the
\* distribution lacks
PassedFor(v) ==
  IF graph.nodes[v] \in DOMAIN options.personalization
  THEN options.personalization[graph.nodes[v]]
  ELSE Zero

\* C25: the restart vector the solver uses is 1/N for every node when no
\* distribution is passed, and otherwise personalization[v] divided by the sum
\* of the passed values over the graph's nodes, a node missing from the passed
\* distribution getting 0.
C25_RestartVector ==
  pc \in {"iterate", "returned"} =>
    \A v \in NodeIndexes(graph) :
      p[v] = IF "personalization" \in DOMAIN options
             THEN Div(PassedFor(v),
                      SumOver([u \in NodeIndexes(graph) |-> PassedFor(u)],
                              NodeIndexes(graph)))
             ELSE Div(One, Num(Order(graph)))

\* the restart vector was built from a distribution of sum 2 over two nodes
C25_Witness ==
  /\ pc = "iterate"
  /\ Order(graph) = 2
  /\ "personalization" \in DOMAIN options
  /\ PassedFor(1) = One
  /\ PassedFor(2) = One
  /\ p = <<<<1, 2>>, <<1, 2>>>>

(***************************************************************************)
(* Termination of abstractPagerank (SolverFairSpec)                        *)
(***************************************************************************)
\* the passes of the loop made so far: a pass that converges leaves through
\* break, before iteration++
Passes == iteration + (IF converged THEN 1 ELSE 0)

\* the ceiling the call was given, the default if none
Ceiling ==
  IF "maxIterations" \in DOMAIN options THEN options.maxIterations ELSE MaxIterations

\* the call has returned a score map or raised an error
Ended == pc \in {"returned", "threw"} /\ solved.kind \in {"returned", "threw"}

\* C26: every solver invocation terminates: it makes at most maxIterations
\* passes and then either returns a score map or raises an error; it never
\* goes on beyond that ceiling, for any graph, weights or restart distribution.
C26_EndsWithinTheCeiling == [](Passes <= Ceiling) /\ <>[]Ended

\* the call ended by raising after exactly as many passes as the default
\* ceiling allows
C26_Witness ==
  /\ Ended
  /\ solved.kind = "threw"
  /\ solved.error = FailedToConverge
  /\ Ceiling = MaxIterations
  /\ Passes = MaxIterations

(***************************************************************************)
(* What evaluate and reward leave unchanged (Spec)                         *)
(***************************************************************************)
\* a call of evaluate or reward leaves what it is given as it was: the config
\* of the engine, the nodes, the edges, and the map evaluate returned, which is
\* the map reward is passed
GivenUnchanged ==
  /\ config' = config
  /\ nodes' = nodes
  /\ edges' = edges
  /\ evaluated # Pending => evaluated' = evaluated
  /\ rewarded' # rewarded => scores' = evaluated.scores

\* C27: evaluate and reward leave everything they are given unchanged: after
\* any call, whether it returns or raises, the engine's config, the nodes and
\* edges arrays with their elements, and the scores map passed to reward have
\* the values they had before the call.
C27_CallsLeaveTheirArguments == [][GivenUnchanged]_vars

\* reward returned a map other than the one it was passed, which is still the
\* map evaluate returned, on an engine whose config is the constructed one
C27_Witness ==
  /\ evaluated.kind = "returned"
  /\ rewarded.kind = "returned"
  /\ rewarded.result # scores
  /\ scores = evaluated.scores
  /\ scores # EmptyMap
  /\ config = Construct(partial)

(***************************************************************************)
(* Properties of the two solves of evaluate (Spec)                         *)
(***************************************************************************)
\* the reverse graph and the personalization evaluate builds
ReverseGraphBuilt ==
  buildReverseGraph(config, nodes, edges, computeNormalizedEdgeValues(config, edges))

PersonalizationBuilt ==
  getOutcomePersonalization(config, nodes, edges,
                            computeNormalizedEdgeValues(config, edges))

\* the nodes reached from the nodes of S along arcs of positive weight of
\* graph g, in at most n steps
RECURSIVE ReachedFrom(_, _, _)
ReachedFrom(g, S, n) ==
  IF n = 0 THEN S
  ELSE LET R == ReachedFrom(g, S, n - 1)
       IN  R \cup {g.edges[k].target :
                     k \in {j \in 1..Len(g.edges) :
                              g.edges[j].source \in R /\ Less(Zero, g.edges[j].weight)}}

\* the nodes with positive restart mass in the reverse solve
Seeded ==
  {id \in Keys(PersonalizationBuilt) \cap NodeIds : Less(Zero, PersonalizationBuilt[id])}

\* the agents not reachable in the reverse graph, along arcs of positive
\* weight, from a node with positive restart mass
UnreachedAgents ==
  AgentIds \ ReachedFrom(ReverseGraphBuilt, Seeded, Len(nodes))

\* the index of node id in the node list
IndexOf(id) == CHOOSE i \in 1..Len(nodes) : nodes[i].id = id

\* the case of the claim: the graphs are built, no arc has a negative weight,
\* and the personalization is not empty
NonNegativeAndSeeded ==
  /\ ReverseGraphBuilt.kind = "graph"
  /\ \A k \in 1..Len(ReverseGraphBuilt.edges) :
       ~Less(ReverseGraphBuilt.edges[k].weight, Zero)
  /\ Keys(PersonalizationBuilt) # {}

\* C28, as the claim states it: with non-negative edge weights and a non-empty
\* personalization, an agent that is not reachable in the reverse graph, along
\* arcs of positive weight, from any node with positive restart mass has
\* reverse score exactly 0, so evaluate with alpha = 0 returns exactly 0 for
\* that agent.
C28_UnreachedAgentsScoreZero ==
  (evaluated # Pending /\ NonNegativeAndSeeded) =>
    \A id \in UnreachedAgents :
      /\ (evaluated.reverse # NotReached /\ evaluated.reverse.x # <<>>) =>
           evaluated.reverse.x[IndexOf(id)] = Zero
      /\ (evaluated.kind = "returned" /\ config.alpha = Zero) =>
           evaluated.scores[id] = Zero

(***************************************************************************)
(* Properties of the solve with the uniform restart (SolverSpec)           *)
(***************************************************************************)
\* the nodes without an incoming arc of positive weight
WithoutPositiveInArc ==
  {v \in NodeIndexes(graph) :
     \A k \in ArcsInto(v) : ~Less(Zero, IndexWeight(graph, k))}

\* C29, as the claim states it: in a solve with the uniform restart, all nodes
\* without an incoming positive-weight arc have the same rank as each other
\* in every iteration.
C29_SameRankWithoutInArcs ==
  (pc \in {"iterate", "returned", "threw"} /\ "personalization" \notin DOMAIN options) =>
    \A u, v \in WithoutPositiveInArc : x[u] = x[v]

(***************************************************************************)
(* The range of the scores evaluate returns (Spec)                         *)
(***************************************************************************)
\* alpha and damping lie in [0, 1], and no weight, multiplier or confidence
\* of the call is negative
InUnitRangeAndNonNegative ==
  /\ Between(config.alpha, Zero, One)
  /\ Between(config.damping, Zero, One)
  /\ \A k \in 1..Len(edges) :
       /\ ~Less(Nullish(Get(edges[k], "weight"), One), Zero)
       /\ ~Less(Nullish(Get(edges[k], "confidence"), One), Zero)
       /\ ~Less(OrElse(Get(config.weights.edges, edges[k].type), One), Zero)
  /\ \A i \in 1..Len(nodes) : ~Less(nodeMultiplier(config, nodes[i]), Zero)

\* C30: for alpha and damping in [0, 1] and non-negative weights, multipliers
\* and confidences, every score that evaluate returns lies in [0, 1] and the
\* scores of all agents together sum to at most 1.
C30_ScoresInUnitRange ==
  (evaluated.kind = "returned" /\ InUnitRangeAndNonNegative) =>
    /\ \A id \in Keys(evaluated.scores) : Between(evaluated.scores[id], Zero, One)
    /\ AtMost(SumOver(evaluated.scores, Keys(evaluated.scores)), One)

\* evaluate returned, for two agents and some edges, scores that are not all
\* equal and sum to less than 1
C30_Witness ==
  /\ evaluated.kind = "returned"
  /\ InUnitRangeAndNonNegative
  /\ edges # <<>>
  /\ Keys(evaluated.scores) = {"alice", "bob"}
  /\ evaluated.scores["alice"] # evaluated.scores["bob"]
  /\ Less(Zero, evaluated.scores["alice"])
  /\ Less(SumOver(evaluated.scores, Keys(evaluated.scores)), One)

====
